---- MODULE Spec2Model ----
(***************************************************************************)
(* Split Engine (app/main.py): an in-memory registry of uploaded           *)
(* documents, keyed by a prefix of the SHA-256 of the raw bytes, and a     *)
(* split operation that cuts a stored text by line count or by UTF-8 byte  *)
(* size, packs the pieces with a manifest into a zip archive, and skips    *)
(* the cut for texts below a threshold.                                    *)
(*                                                                         *)
(* A Python str that is a text is a sequence of code points (naturals);    *)
(* bytes are a sequence of naturals below 256.  A file name or extension   *)
(* is a sequence of one-character strings; modes and messages are strings. *)
(***************************************************************************)
EXTENDS Integers, Sequences, FiniteSets, TLC

VARIABLES files, tasks, now, log, resp, call

vars == <<files, tasks, now, log, resp, call>>

(***************************************************************************)
(* Bounds of the model.                                                    *)
(***************************************************************************)
\* longest text handed to the chunking functions on their own
MaxLen == 3
\* largest lines-per-piece / bytes-per-piece handed to them
MaxN == 4

\* code points of the texts: a, LF, CR, e-acute (2 bytes), LINE SEPARATOR
\* (3 bytes, a str.splitlines boundary), an emoji (4 bytes)
Alphabet == {97, 10, 13, 233, 8232, 128512}

Texts == UNION {[1..k -> Alphabet] : k \in 0..MaxLen}

(***************************************************************************)
(* Python built-ins the handlers use.                                      *)
(***************************************************************************)
Min2(a, b) == IF a <= b THEN a ELSE b

\* s[a:b] for 0 <= a, 0 <= b (Python slice, 0-based, end exclusive, clamped)
Slice(s, a, b) == SubSeq(s, a + 1, Min2(b, Len(s)))

\* "".join(parts)
RECURSIVE join(_)
join(parts) == IF parts = <<>> THEN <<>> ELSE Head(parts) \o join(Tail(parts))

\* the characters str.splitlines breaks a line at
LineBoundaries == {10, 11, 12, 13, 28, 29, 30, 133, 8232, 8233}

\* 1-based index of the last character of the first line of a non-empty text:
\* the first boundary character (CR LF counts as one), else the end of text
LineEnd(text) ==
  LET idx == {i \in 1..Len(text) : text[i] \in LineBoundaries}
  IN  IF idx = {} THEN Len(text)
      ELSE LET i == CHOOSE j \in idx : \A k \in idx : j <= k
           IN  IF text[i] = 13 /\ i < Len(text) /\ text[i + 1] = 10
               THEN i + 1 ELSE i

\* text.splitlines(True): the lines, each with its terminator
RECURSIVE splitlines(_)
splitlines(text) ==
  IF text = <<>> THEN <<>>
  ELSE LET e == LineEnd(text)
       IN  <<SubSeq(text, 1, e)>> \o splitlines(SubSeq(text, e + 1, Len(text)))

\* text.count("\n")
count_newlines(text) == Cardinality({i \in 1..Len(text) : text[i] = 10})

\* the UTF-8 encoding of one code point (no surrogates in the model)
encode_char(c) ==
  IF c < 128 THEN <<c>>
  ELSE IF c < 2048 THEN <<192 + (c \div 64), 128 + (c % 64)>>
  ELSE IF c < 65536
       THEN <<224 + (c \div 4096), 128 + ((c \div 64) % 64), 128 + (c % 64)>>
  ELSE <<240 + (c \div 262144), 128 + ((c \div 4096) % 64),
         128 + ((c \div 64) % 64), 128 + (c % 64)>>

\* text.encode("utf-8")
RECURSIVE encode(_)
encode(text) ==
  IF text = <<>> THEN <<>> ELSE encode_char(Head(text)) \o encode(Tail(text))

\* number of continuation bytes a lead byte announces (0: not a lead byte)
Need(b0) ==
  IF b0 >= 194 /\ b0 <= 223 THEN 1
  ELSE IF b0 >= 224 /\ b0 <= 239 THEN 2
  ELSE IF b0 >= 240 /\ b0 <= 244 THEN 3
  ELSE 0

\* whether byte c may be the k-th continuation byte after lead byte b0
ContOk(b0, k, c) ==
  IF k = 1 /\ b0 = 224 THEN c >= 160 /\ c <= 191
  ELSE IF k = 1 /\ b0 = 237 THEN c >= 128 /\ c <= 159
  ELSE IF k = 1 /\ b0 = 240 THEN c >= 144 /\ c <= 191
  ELSE IF k = 1 /\ b0 = 244 THEN c >= 128 /\ c <= 143
  ELSE c >= 128 /\ c <= 191

\* how many of the continuation bytes after position i are valid, in order
RECURSIVE ValidCont(_, _, _)
ValidCont(b, i, k) ==
  IF k < Need(b[i]) /\ i + k + 1 <= Len(b) /\ ContOk(b[i], k + 1, b[i + k + 1])
  THEN ValidCont(b, i, k + 1) ELSE k

\* the code point of the well-formed sequence of n + 1 bytes at position i
CodePoint(b, i, n) ==
  IF n = 1 THEN (b[i] - 192) * 64 + (b[i + 1] - 128)
  ELSE IF n = 2
       THEN (b[i] - 224) * 4096 + (b[i + 1] - 128) * 64 + (b[i + 2] - 128)
  ELSE (b[i] - 240) * 262144 + (b[i + 1] - 128) * 4096
       + (b[i + 2] - 128) * 64 + (b[i + 3] - 128)

\* b.decode("utf-8", errors="replace") from position i: every maximal
\* ill-formed run (a stray byte, a truncated sequence) becomes one U+FFFD
RECURSIVE decode_from(_, _)
decode_from(b, i) ==
  IF i > Len(b) THEN <<>>
  ELSE IF b[i] < 128 THEN <<b[i]>> \o decode_from(b, i + 1)
  ELSE IF Need(b[i]) = 0 THEN <<65533>> \o decode_from(b, i + 1)
  ELSE LET k == ValidCont(b, i, 0)
       IN  IF k < Need(b[i]) THEN <<65533>> \o decode_from(b, i + k + 1)
           ELSE <<CodePoint(b, i, k)>> \o decode_from(b, i + k + 1)

decode(b) == decode_from(b, 1)

(***************************************************************************)
(* The chunking functions.                                                 *)
(***************************************************************************)
\* the loop of split_by_lines: for i in range(0, len(lines), lines_per_piece)
RECURSIVE lines_loop(_, _, _)
lines_loop(lines, i, lines_per_piece) ==
  IF i >= Len(lines) THEN <<>>
  ELSE <<join(Slice(lines, i, i + lines_per_piece))>>
       \o lines_loop(lines, i + lines_per_piece, lines_per_piece)

\* a faulty variant: the lines are split without their terminators (splitlines())
split_by_lines_dropends(text, lines_per_piece) ==
  LET strip(l) == IF l[Len(l)] \in LineBoundaries
                  THEN SubSeq(l, 1, Len(l) - 1) ELSE l
      ls == splitlines(text)
  IN  lines_loop([k \in 1..Len(ls) |-> strip(ls[k])], 0, lines_per_piece)

\* a faulty variant: each slice takes one line too many (lines[i:i+n+1])
split_by_lines_overlap(text, lines_per_piece) ==
  LET ls == splitlines(text)
      RECURSIVE loop(_)
      loop(i) == IF i >= Len(ls) THEN <<>>
                 ELSE <<join(Slice(ls, i, i + lines_per_piece + 1))>>
                      \o loop(i + lines_per_piece)
  IN  loop(0)

split_by_lines(text, lines_per_piece) ==
  lines_loop(splitlines(text), 0, lines_per_piece)

\* the loop of split_by_size: the byte windows b[start:end]
RECURSIVE size_windows(_, _, _)
size_windows(b, start, bytes_per_piece) ==
  IF start < Len(b)
  THEN LET end == Min2(start + bytes_per_piece, Len(b))
       IN  <<Slice(b, start, end)>> \o size_windows(b, end, bytes_per_piece)
  ELSE <<>>

\* a faulty variant: the next window starts one byte late (start = end + 1)
split_by_size_skip(text, bytes_per_piece) ==
  LET b == encode(text)
      RECURSIVE loop(_)
      loop(start) ==
        IF start < Len(b)
        THEN LET end == Min2(start + bytes_per_piece, Len(b))
             IN  <<decode(Slice(b, start, end))>> \o loop(end + 1)
        ELSE <<>>
  IN  loop(0)

split_by_size(text, bytes_per_piece) ==
  LET w == size_windows(encode(text), 0, bytes_per_piece)
  IN  [k \in 1..Len(w) |-> decode(w[k])]

(***************************************************************************)
(* File names and extensions: a name is a sequence of one-character        *)
(* strings.                                                                *)
(***************************************************************************)
TXT == <<".", "t", "x", "t">>
SRT == <<".", "s", "r", "t">>
VTT == <<".", "v", "t", "t">>
DOCX == <<".", "d", "o", "c", "x">>
PDF == <<".", "p", "d", "f">>

\* str.lower() on the letters of the model's names
lower_char(c) ==
  CASE c = "A" -> "a" [] c = "B" -> "b" [] c = "R" -> "r" [] c = "S" -> "s"
    [] c = "T" -> "t" [] c = "X" -> "x" [] OTHER -> c

\* os.path.splitext(filename)[1].lower(): from the last dot of the name, if a
\* character other than a dot precedes it (the model's names have no slash)
ext_of(filename) ==
  LET dots == {i \in 1..Len(filename) : filename[i] = "."}
  IN  IF dots = {} THEN <<>>
      ELSE LET last == CHOOSE i \in dots : \A j \in dots : j <= i
               e == SubSeq(filename, last, Len(filename))
           IN  IF \E j \in 1..(last - 1) : filename[j] # "."
               THEN [k \in 1..Len(e) |-> lower_char(e[k])]
               ELSE <<>>

\* CAPS: the per-type caps in bytes; CapsKeys are its keys
CapsKeys == {TXT, SRT, VTT, DOCX, PDF}

CAPS(ext) ==
  IF ext = DOCX THEN 25 * 1024 * 1024
  ELSE IF ext = PDF THEN 40 * 1024 * 1024
  ELSE 10 * 1024 * 1024

SUPPORTED_V01 == {TXT, DOCX, SRT, VTT}

DEFAULT_LINES == 250
DEFAULT_BYTES == 200000
MIN_MULTIPLIER == 2

\* an HTTPException(status, detail)
HTTPException(status, detail) ==
  [kind |-> "error", status |-> status, detail |-> detail]

\* an exception no handler catches: the framework answers 500
Uncaught == [kind |-> "error", status |-> 500, detail |-> "Internal Server Error"]

Passed == [kind |-> "ok"]

enforce_caps(ext, size_bytes) ==
  IF ext \notin CapsKeys THEN HTTPException(415, "Unsupported file type")
  ELSE IF ext \notin SUPPORTED_V01
       THEN HTTPException(415, "not supported in v0.1")
  ELSE IF size_bytes > CAPS(ext) THEN HTTPException(413, "File too large")
  ELSE Passed

(***************************************************************************)
(* Text extraction.  The .docx, .srt and .vtt parsers are optional         *)
(* third-party libraries: whether one is installed, whether it accepts the *)
(* bytes and the parts (paragraphs, subtitles, cues) it returns are the    *)
(* environment's, drawn from ParserOutcomes.                               *)
(***************************************************************************)
\* sep.join(parts)
RECURSIVE join_with(_, _)
join_with(sep, parts) ==
  IF parts = <<>> THEN <<>>
  ELSE IF Len(parts) = 1 THEN parts[1]
  ELSE parts[1] \o sep \o join_with(sep, Tail(parts))

ParserOutcomes ==
  [installed : {FALSE}, parses : {FALSE}, parts : {<<>>}]
  \cup [installed : {TRUE}, parses : {FALSE}, parts : {<<>>}]
  \cup [installed : {TRUE}, parses : {TRUE}, parts : {<<>>, << <<97>>, <<98>> >>}]

Extracted(text) == [kind |-> "ok", text |-> text]

\* the parser branches of load_text_from_upload: the library is missing
\* (500), raises (400), or returns parts that are joined with sep
parsed_text(parser, sep) ==
  IF ~parser.installed THEN HTTPException(500, "support not installed")
  ELSE IF ~parser.parses THEN HTTPException(400, "Failed to parse file")
  ELSE Extracted(join_with(sep, parser.parts))

load_text_from_upload(filename, data, parser) ==
  LET ext == ext_of(filename)
  IN  IF ext = TXT THEN Extracted(decode(data))
      ELSE IF ext = DOCX THEN parsed_text(parser, <<10>>)
      ELSE IF ext = SRT THEN parsed_text(parser, <<10, 10>>)
      ELSE IF ext = VTT THEN parsed_text(parser, <<10, 10>>)
      ELSE HTTPException(415, "Unsupported extension")

(***************************************************************************)
(* The content hash.  A digest is a sequence of hexadecimal digits, and    *)
(* its first 16 digits are the document id.  SHA-256 itself is not         *)
(* computed.  What is kept of it: the digest is a function of the bytes;   *)
(* distinct payloads have distinct digests (collision resistance of the    *)
(* full digest: the digits after the 16th are stood for by the bytes       *)
(* themselves); and the 16-digit prefix takes fewer values than there are  *)
(* payloads (16^16 prefixes against every byte string up to the caps), so  *)
(* some distinct payloads share a prefix.  The prefix is a checksum of the *)
(* bytes modulo PrefixSpace; the short payloads of the model stand for     *)
(* payloads that do and do not share a prefix.                             *)
(***************************************************************************)
\* number of distinct 16-digit prefixes in the model
PrefixSpace == 2

RECURSIVE byte_sum(_)
byte_sum(b) == IF b = <<>> THEN 0 ELSE Head(b) + byte_sum(Tail(b))

\* n < 256 written as 16 hexadecimal digits
hex16(n) ==
  [i \in 1..16 |-> IF i = 16 THEN n % 16 ELSE IF i = 15 THEN n \div 16 ELSE 0]

sha256_bytes(b) == hex16(byte_sum(b) % PrefixSpace) \o b

(***************************************************************************)
(* POST /upload.  The handler computes name and ext, suspends at           *)
(* `await file.read()` and runs the rest without a further suspension      *)
(* point: UploadBegin is the part before the await, UploadRead the part    *)
(* after it.  Handlers run on one event loop, so each part is one step.    *)
(* tasks holds the suspended uploads, as a set: two suspended uploads of   *)
(* the same bytes under the same name are one element.  The bodies of the  *)
(* model are a few bytes long, below every cap.                            *)
(***************************************************************************)
\* uploads that may be suspended at the same time
MaxInflight == 2
\* the clock (datetime.now) takes the values 0..MaxClock
MaxClock == 1

default_name == <<"u", "p", "l", "o", "a", "d", "e", "d">>

\* a faulty variant: length_chars counts the bytes uploaded
make_entry_byte_length(name, ext, text, data, at) ==
  [name |-> name, ext |-> ext, text |-> text, sha256 |-> sha256_bytes(data),
   length_chars |-> Len(data), uploaded_at |-> at]

\* the registry entry app.state.files[fid] of lines 123-130
make_entry(name, ext, text, data, at) ==
  [name |-> name, ext |-> ext, text |-> text, sha256 |-> sha256_bytes(data),
   length_chars |-> Len(text), uploaded_at |-> at]

\* fid = sha256_bytes(data)[:16]
file_id_of(data) == Slice(sha256_bytes(data), 0, 16)

\* d[k] = v on a dict
dict_set(d, k, v) == [x \in DOMAIN d \cup {k} |-> IF x = k THEN v ELSE d[x]]

\* a faulty variant: the entry is stored under its full digest
registry_put_full_digest(d, k, v) == dict_set(d, v.sha256, v)

\* app.state.files[fid] = {...}
registry_put(d, k, v) == dict_set(d, k, v)

\* log is the history of the successful uploads (bytes, name, id returned):
\* the program keeps no such record, the properties refer to it
Startup ==
  /\ files = <<>>
  /\ tasks = {}
  /\ now = 0
  /\ log = {}
  /\ resp = [kind |-> "none"]

UploadBegin(filename, data) ==
  LET name == IF filename = <<>> THEN default_name ELSE filename
  IN  /\ Cardinality(tasks) < MaxInflight
      /\ tasks' = tasks \cup {[name |-> name, ext |-> ext_of(name), data |-> data]}
      /\ UNCHANGED <<files, now, log, resp, call>>

\* what the rest of the handler answers, and the entry it stores (if any)
upload_rest(t, parser, at) ==
  IF t.data = <<>> THEN HTTPException(400, "Empty file")
  ELSE LET c == enforce_caps(t.ext, Len(t.data))
       IN  IF c.kind = "error" THEN c
           ELSE LET x == load_text_from_upload(t.name, t.data, parser)
                IN  IF x.kind = "error" THEN x
                    ELSE [kind |-> "uploaded",
                          file_id |-> file_id_of(t.data),
                          name |-> t.name, ext |-> t.ext,
                          length_chars |-> Len(x.text),
                          entry |-> make_entry(t.name, t.ext, x.text, t.data, at)]

UploadRead(t, parser) ==
  LET r == upload_rest(t, parser, now)
  IN  /\ t \in tasks
      /\ tasks' = tasks \ {t}
      /\ IF r.kind = "uploaded"
         THEN /\ files' = registry_put(files, r.file_id, r.entry)
              /\ log' = log \cup {[data |-> t.data, name |-> t.name,
                                   file_id |-> r.file_id]}
              /\ resp' = [kind |-> "uploaded", file_id |-> r.file_id,
                          name |-> r.name, ext |-> r.ext,
                          length_chars |-> r.length_chars]
         ELSE /\ resp' = r
              /\ UNCHANGED <<files, log>>
      /\ UNCHANGED <<now, call>>

\* time passes
Tick ==
  /\ now < MaxClock
  /\ now' = now + 1
  /\ UNCHANGED <<files, tasks, log, resp, call>>

(***************************************************************************)
(* POST /split.  The handler has no suspension point: it is one step.      *)
(* A value of the JSON object `params` is absent, an integer or a string   *)
(* that int() rejects ("abc").                                             *)
(***************************************************************************)
Absent == [t |-> "absent", v |-> 0]
IntValue(n) == [t |-> "int", v |-> n]
NotANumber == [t |-> "str", v |-> 0]

\* int(params.get(key, default)): ok is FALSE when int() raises ValueError
py_int(value, default) ==
  IF value.t = "absent" THEN [ok |-> TRUE, v |-> default]
  ELSE IF value.t = "int" THEN [ok |-> TRUE, v |-> value.v]
  ELSE [ok |-> FALSE, v |-> 0]

\* the decimal digits of i >= 0, as characters
digit_char(d) ==
  CASE d = 0 -> "0" [] d = 1 -> "1" [] d = 2 -> "2" [] d = 3 -> "3"
    [] d = 4 -> "4" [] d = 5 -> "5" [] d = 6 -> "6" [] d = 7 -> "7"
    [] d = 8 -> "8" [] d = 9 -> "9"

RECURSIVE decimal(_)
decimal(i) ==
  IF i < 10 THEN <<digit_char(i)>>
  ELSE decimal(i \div 10) \o <<digit_char(i % 10)>>

\* f"{i:04d}": the decimal digits, padded with zeros on the left to width 4
RECURSIVE zero_pad(_)
zero_pad(s) == IF Len(s) >= 4 THEN s ELSE zero_pad(<<"0">> \o s)

format_04d(i) == zero_pad(decimal(i))

\* f"piece_{i:04d}.txt"
piece_name(i) == <<"piece_">> \o format_04d(i) \o <<".txt">>

manifest_name == <<"manifest.json">>

reason_below_threshold == "file below minimum threshold for selected mode"

manifest_source(meta, text) ==
  [filename |-> meta.name, sha256 |-> meta.sha256, length_chars |-> Len(text)]

\* the manifest of the skipped path (lines 178-185)
skipped_manifest(meta, text, mode, params, at) ==
  [source |-> manifest_source(meta, text), created_at |-> at, mode |-> mode,
   params |-> params, skipped_reason |-> reason_below_threshold,
   pieces |-> << [id |-> <<"0", "0", "0", "1">>, length_chars |-> Len(text)] >>]

\* the manifest of a split (lines 202-208)
split_manifest(meta, text, mode, params, pieces, at) ==
  [source |-> manifest_source(meta, text), created_at |-> at, mode |-> mode,
   params |-> params,
   pieces |-> [i \in 1..Len(pieces) |->
                 [id |-> format_04d(i), length_chars |-> Len(pieces[i])]]]

\* the zip archive: its entries in the order written; writestr stores a str
\* as its UTF-8 encoding; the manifest entry holds the manifest as JSON
manifest_entry(manifest) == [name |-> manifest_name, json |-> manifest]

\* a faulty variant: the manifest is written first
write_archive_manifest_first(pieces, manifest) ==
  <<manifest_entry(manifest)>>
  \o [i \in 1..Len(pieces) |-> [name |-> piece_name(i), data |-> encode(pieces[i])]]

write_archive(pieces, manifest) ==
  [i \in 1..Len(pieces) |-> [name |-> piece_name(i), data |-> encode(pieces[i])]]
  \o <<manifest_entry(manifest)>>

\* lines 186-191: the archive of the skipped path
write_skipped_archive(text, manifest) ==
  << [name |-> <<"piece_", "0", "0", "0", "1", ".txt">>, data |-> encode(text)],
     manifest_entry(manifest) >>

StreamingResponse(entries) ==
  [kind |-> "archive", status |-> 200, entries |-> entries]

\* a faulty variant: the threshold compares with the requested lines / bytes
too_small_requested(mode, text, params) ==
  \/ mode = "lines"
     /\ count_newlines(text) + 1
          < MIN_MULTIPLIER * py_int(params.lines, DEFAULT_LINES).v
  \/ mode = "size"
     /\ Len(encode(text))
          < MIN_MULTIPLIER * py_int(params.bytes, DEFAULT_BYTES).v

\* lines 166-177: the threshold test (the defaults have been parsed)
too_small(mode, text, params) ==
  LET total_lines == count_newlines(text) + 1
      total_bytes == Len(encode(text))
      lines_default == py_int(params.default_lines, DEFAULT_LINES).v
      bytes_default == py_int(params.default_bytes, DEFAULT_BYTES).v
      too_small_for_lines == total_lines < MIN_MULTIPLIER * lines_default
      too_small_for_size == total_bytes < MIN_MULTIPLIER * bytes_default
  IN  (mode = "lines" /\ too_small_for_lines)
      \/ (mode = "size" /\ too_small_for_size)

\* lines 202-216
pack(meta, text, mode, params, pieces, at) ==
  StreamingResponse(
    write_archive(pieces, split_manifest(meta, text, mode, params, pieces, at)))

\* lines 193-200: the requested size is parsed and checked, the text is cut
cut(meta, text, mode, params, at) ==
  IF mode = "lines"
  THEN LET n == py_int(params.lines, DEFAULT_LINES)
       IN  IF ~n.ok THEN Uncaught
           ELSE IF n.v <= 0 THEN HTTPException(400, "lines must be > 0")
           ELSE pack(meta, text, mode, params, split_by_lines(text, n.v), at)
  ELSE LET sz == py_int(params.bytes, DEFAULT_BYTES)
       IN  IF ~sz.ok THEN Uncaught
           ELSE IF sz.v <= 0 THEN HTTPException(400, "bytes must be > 0")
           ELSE pack(meta, text, mode, params, split_by_size(text, sz.v), at)

\* the handler: what it answers to payload, with the registry d, at time at
split(d, payload, at) ==
  LET fid == payload.file_id
      mode == payload.mode
      params == payload.params
  IN  IF fid = <<>> \/ fid \notin DOMAIN d
      THEN HTTPException(404, "file_id not found")
      ELSE IF mode \notin {"lines", "size"}
      THEN HTTPException(400, "Only 'lines' and 'size' modes are supported")
      ELSE LET meta == d[fid]
               text == meta.text
           IN  IF ~py_int(params.default_lines, DEFAULT_LINES).ok
                  \/ ~py_int(params.default_bytes, DEFAULT_BYTES).ok
               THEN Uncaught
               ELSE IF too_small(mode, text, params)
               THEN StreamingResponse(
                      write_skipped_archive(
                        text, skipped_manifest(meta, text, mode, params, at)))
               ELSE cut(meta, text, mode, params, at)

\* the exchange: the request and the entry `meta` the handler read (none when
\* the id is not stored) are kept with the answer, for the properties to
\* refer to
Split(payload) ==
  /\ resp' = [kind |-> "split", req |-> payload,
              meta |-> IF payload.file_id \in DOMAIN files
                       THEN <<files[payload.file_id]>> ELSE <<>>,
              out |-> split(files, payload, now)]
  /\ UNCHANGED <<files, tasks, now, log, call>>

(***************************************************************************)
(* The requests of the model.                                              *)
(***************************************************************************)
NameTxt == <<"a", ".", "t", "x", "t">>
NameSrt == <<"B", ".", "S", "R", "T">>
NameUpper == <<"B", ".", "T", "X", "T">>
NamePdf == <<"c", ".", "p", "d", "f">>

\* uploaded bytes: "a", "a\nb", "\xc3\xa9\nb" (e-acute, LF, b)
BytesA == <<97>>
BytesAB == <<97, 10, 98>>
BytesEB == <<195, 169, 10, 98>>

Data == {BytesA, BytesAB, BytesEB}

Ids == {file_id_of(data) : data \in Data}

\* a parser that accepts the bytes and returns no part
ParsesNothing == [installed |-> TRUE, parses |-> TRUE, parts |-> <<>>]

NoParams ==
  [lines |-> Absent, bytes |-> Absent,
   default_lines |-> Absent, default_bytes |-> Absent]

\* the split requests made while uploads run
FewPayloads ==
  [file_id : Ids, mode : {"lines", "size"},
   params : {[lines |-> IntValue(1), bytes |-> IntValue(1),
              default_lines |-> IntValue(1), default_bytes |-> IntValue(1)]}]

\* largest integer of a split request's params
MaxParam == 2

ParamValues == {Absent, NotANumber} \cup {IntValue(n) : n \in 0..MaxParam}

\* the split requests of the split handler on its own: every value of the
\* mode's own two params, the other mode's default absent or unparsable
ManyPayloads ==
  [file_id : Ids \cup {<<>>}, mode : {"tokens"}, params : {NoParams}]
  \cup [file_id : Ids, mode : {"lines"},
        params : [lines : ParamValues, bytes : {Absent},
                  default_lines : ParamValues,
                  default_bytes : {Absent, NotANumber}]]
  \cup [file_id : Ids, mode : {"size"},
        params : [lines : {Absent}, bytes : ParamValues,
                  default_lines : {Absent, NotANumber},
                  default_bytes : ParamValues]]

IdleChunker == call = [op |-> "idle", text |-> <<>>, n |-> 1, pieces |-> <<>>]

Init == Startup /\ IdleChunker

(***************************************************************************)
(* Spec: uploads that overlap, and splits.  The clock stands still.        *)
(***************************************************************************)
Next ==
  \/ \E filename \in {NameTxt, NameSrt}, data \in Data :
       UploadBegin(filename, data)
  \/ \E t \in tasks, parser \in ParserOutcomes \ {ParsesNothing} :
       UploadRead(t, parser)
  \/ \E payload \in FewPayloads : Split(payload)

Spec == Init /\ [][Next]_vars

(***************************************************************************)
(* SpecClock: uploads one at a time ("a.txt", "B.TXT", "c.pdf", no file    *)
(* name; empty bodies too), splits, and a clock that advances.             *)
(***************************************************************************)
UploadAlone(filename, data) ==
  /\ tasks = {}
  /\ UploadBegin(filename, data)

NextClock ==
  \/ \E filename \in {NameTxt, NameUpper, NamePdf, <<>>},
        data \in {<<>>, BytesA, BytesAB} :
       UploadAlone(filename, data)
  \/ \E t \in tasks : UploadRead(t, ParsesNothing)
  \/ Tick
  \/ \E payload \in FewPayloads : Split(payload)

SpecClock == Init /\ [][NextClock]_vars

(***************************************************************************)
(* SpecSplit: the split handler on three stored documents ("a\nb" and      *)
(* "\xe9\nb" from .txt uploads, the empty text of an .srt without          *)
(* subtitles), with every request of ManyPayloads.                         *)
(***************************************************************************)
NextSplit ==
  \/ \E data \in {BytesAB, BytesEB} : UploadAlone(NameTxt, data)
  \/ UploadAlone(NameSrt, BytesAB)
  \/ \E t \in tasks : UploadRead(t, ParsesNothing)
  \/ \E payload \in ManyPayloads : Split(payload)

SpecSplit == Init /\ [][NextSplit]_vars

(***************************************************************************)
(* The chunking functions on their own: the inputs are drawn at the start, *)
(* one call is made.                                                       *)
(***************************************************************************)
InitChunk ==
  /\ Startup
  /\ call \in [op : {"idle"}, text : Texts, n : 1..MaxN, pieces : {<<>>}]

CallSplitByLines ==
  /\ call.op = "idle"
  /\ call' = [call EXCEPT !.op = "lines",
                          !.pieces = split_by_lines(call.text, call.n)]
  /\ UNCHANGED <<files, tasks, now, log, resp>>

CallSplitBySize ==
  /\ call.op = "idle"
  /\ call' = [call EXCEPT !.op = "size",
                          !.pieces = split_by_size(call.text, call.n)]
  /\ UNCHANGED <<files, tasks, now, log, resp>>

NextChunk == CallSplitByLines \/ CallSplitBySize

SpecChunk == InitChunk /\ [][NextChunk]_vars

(***************************************************************************)
(* Claims about the chunking functions.                                    *)
(***************************************************************************)
\* C1: concatenating the pieces of split_by_lines(T, n) in order gives T.
LinesLossless ==
  call.op = "lines" => join(call.pieces) = call.text

LinesLosslessWitness ==
  /\ call.op = "lines"
  /\ Len(call.pieces) >= 2
  /\ \E i \in 1..Len(call.text) : call.text[i] = 13
  /\ join(call.pieces) = call.text

\* C9: split_by_lines(T, n) on a text of L >= 1 lines gives ceil(L / n)
\* pieces, all of n lines but the last, which has 1..n lines; no piece is
\* empty, and a non-empty text gives at least one piece.
LinesShape ==
  call.op = "lines" =>
    LET L == Len(splitlines(call.text))
        P == call.pieces
    IN  /\ (call.text # <<>> => Len(P) >= 1)
        /\ L >= 1 =>
             /\ Len(P) = (L + call.n - 1) \div call.n
             /\ \A k \in 1..Len(P) :
                  /\ P[k] # <<>>
                  /\ k < Len(P) => Len(splitlines(P[k])) = call.n
                  /\ k = Len(P) => /\ Len(splitlines(P[k])) >= 1
                                   /\ Len(splitlines(P[k])) <= call.n
                                   /\ Len(splitlines(P[k]))
                                        = L - (Len(P) - 1) * call.n

LinesShapeWitness ==
  /\ call.op = "lines"
  /\ call.n = 2
  /\ Len(splitlines(call.text)) = 3
  /\ Len(call.pieces) = 2
  /\ Len(splitlines(call.pieces[2])) = 1

\* the byte offsets at which a character of the text ends
CharEnds(text) == {Len(encode(SubSeq(text, 1, k))) : k \in 0..Len(text)}

\* the byte offsets at which the windows of split_by_size end
WindowEnds(text, sz) ==
  LET w == size_windows(encode(text), 0, sz)
  IN  {Len(join(SubSeq(w, 1, k))) : k \in 0..Len(w)}

\* C2: the windows of split_by_size(T, sz) are consecutive, non-empty, of at
\* most sz bytes and cover the encoding of T; when no window ends inside a
\* multi-byte sequence, the pieces concatenate to T.
SizeLossless ==
  call.op = "size" =>
    LET w == size_windows(encode(call.text), 0, call.n)
    IN  /\ join(w) = encode(call.text)
        /\ \A k \in 1..Len(w) : Len(w[k]) >= 1 /\ Len(w[k]) <= call.n
        /\ Len(call.pieces) = Len(w)
        /\ WindowEnds(call.text, call.n) \subseteq CharEnds(call.text)
             => join(call.pieces) = call.text

SizeLosslessWitness ==
  /\ call.op = "size"
  /\ Len(call.pieces) >= 2
  /\ \E i \in 1..Len(call.text) : call.text[i] >= 128
  /\ WindowEnds(call.text, call.n) \subseteq CharEnds(call.text)
  /\ join(call.pieces) = call.text

\* C10: every piece of split_by_size(T, sz) is non-empty and its UTF-8
\* encoding has at most sz bytes.
SizePiecesBounded ==
  call.op = "size" =>
    \A k \in 1..Len(call.pieces) :
      /\ call.pieces[k] # <<>>
      /\ Len(encode(call.pieces[k])) <= call.n

(***************************************************************************)
(* Claims about the registry (Spec, SpecClock).                            *)
(***************************************************************************)
SameBytesSameId ==
  \A r1 \in log, r2 \in log : r1.data = r2.data => r1.file_id = r2.file_id

DocumentsImmutable ==
  [][\A fid \in DOMAIN files :
       fid \in DOMAIN files' /\ files'[fid] = files[fid]]_vars

\* an entry as one upload writes it: all its fields come from one request
CompleteEntry(fid, e) ==
  /\ fid = Slice(e.sha256, 0, 16)
  /\ e.length_chars = Len(e.text)
  /\ e.ext = ext_of(e.name)
  /\ \E data \in Data :
       /\ e.sha256 = sha256_bytes(data)
       /\ \/ e.ext = TXT /\ e.text = decode(data)
          \/ e.ext = SRT /\ \E o \in ParserOutcomes :
                              o.parses /\ e.text = join_with(<<10, 10>>, o.parts)

\* C8: whatever the interleaving of uploads and splits, every entry of the
\* registry is stored under the first 16 digits of its own hash, records the
\* length of its own text and is one upload's entry; a split finds no entry
\* (404) or reads one such entry, and answers from it alone.
RegistryIntegrity ==
  /\ \A fid \in DOMAIN files : CompleteEntry(fid, files[fid])
  /\ resp.kind = "split" =>
       IF resp.meta = <<>>
       THEN resp.out.kind = "error" /\ resp.out.status = 404
       ELSE /\ CompleteEntry(resp.req.file_id, resp.meta[1])
            /\ resp.out.kind = "archive"
            /\ LET m == resp.out.entries[Len(resp.out.entries)].json
               IN  /\ m.source.filename = resp.meta[1].name
                   /\ m.source.sha256 = resp.meta[1].sha256
                   /\ m.source.length_chars = resp.meta[1].length_chars

\* an upload is suspended at its read while another upload of other bytes
\* has stored an entry under the id it will write, and a split has read it
RegistryIntegrityWitness ==
  /\ \E t \in tasks :
       /\ file_id_of(t.data) \in DOMAIN files
       /\ files[file_id_of(t.data)].sha256 # sha256_bytes(t.data)
       /\ resp.kind = "split"
       /\ resp.meta = <<files[file_id_of(t.data)]>>
  /\ Cardinality(tasks) = 2
  /\ RegistryIntegrity

(***************************************************************************)
(* Claims about the split handler (SpecSplit).                             *)
(***************************************************************************)
\* the request's defaults are integers where present
WellTyped(params) ==
  params.default_lines.t # "str" /\ params.default_bytes.t # "str"

IsSplitOfStored ==
  /\ resp.kind = "split"
  /\ resp.meta # <<>>
  /\ resp.req.mode \in {"lines", "size"}

IsSkipped(out) ==
  /\ out.kind = "archive"
  /\ "skipped_reason" \in DOMAIN out.entries[Len(out.entries)].json

\* the threshold of the claim: the request's default if present, else 250
\* lines / 200000 bytes, doubled
BelowThreshold(text, mode, params) ==
  LET defaultLines == IF params.default_lines.t = "int"
                      THEN params.default_lines.v ELSE 250
      defaultBytes == IF params.default_bytes.t = "int"
                      THEN params.default_bytes.v ELSE 200000
      totalLines == Cardinality({i \in 1..Len(text) : text[i] = 10}) + 1
      totalBytes == Len(encode(text))
  IN  \/ mode = "lines" /\ totalLines < 2 * defaultLines
      \/ mode = "size" /\ totalBytes < 2 * defaultBytes

InvalidParameterRejected ==
  IsSplitOfStored =>
    LET v == IF resp.req.mode = "lines"
             THEN resp.req.params.lines ELSE resp.req.params.bytes
    IN  (v.t = "str" \/ (v.t = "int" /\ v.v <= 0)) =>
          resp.out.kind = "error" /\ resp.out.status = 400

\* k as four decimal digits
PaddedIndex(k) ==
  [j \in 1..4 |->
     digit_char(IF j = 1 THEN (k \div 1000) % 10
                ELSE IF j = 2 THEN (k \div 100) % 10
                ELSE IF j = 3 THEN (k \div 10) % 10
                ELSE k % 10)]

\* the pieces a split of text returns, in the order of the text
PiecesOf(text, mode, params, skipped) ==
  IF skipped THEN <<text>>
  ELSE IF mode = "lines"
       THEN split_by_lines(text, py_int(params.lines, DEFAULT_LINES).v)
       ELSE split_by_size(text, py_int(params.bytes, DEFAULT_BYTES).v)

\* C7: every archive a split returns holds one entry per piece of the
\* manifest, then manifest.json; the k-th entry is piece_<k, 4 digits>.txt
\* and holds the k-th piece of the text, and the k-th piece of the manifest
\* has that padded index as id and the piece's length in characters.
ArchiveConsistent ==
  (resp.kind = "split" /\ resp.out.kind = "archive") =>
    LET E == resp.out.entries
        n == Len(E) - 1
    IN  /\ n >= 0
        /\ E[n + 1].name = <<"manifest.json">>
        /\ \A k \in 1..n : E[k].name = <<"piece_">> \o PaddedIndex(k) \o <<".txt">>
        /\ LET M == E[n + 1].json
               P == PiecesOf(resp.meta[1].text, resp.req.mode, resp.req.params,
                             "skipped_reason" \in DOMAIN M)
           IN  /\ Len(M.pieces) = n
               /\ Len(P) = n
               /\ \A k \in 1..n :
                    /\ M.pieces[k].id = PaddedIndex(k)
                    /\ E[k].data = encode(P[k])
                    /\ M.pieces[k].length_chars = Len(decode(E[k].data))

\* a cut into four pieces, one per byte of "\xc3\xa9\nb"
ArchiveConsistentWitness ==
  /\ resp.kind = "split"
  /\ resp.out.kind = "archive"
  /\ resp.req.mode = "size"
  /\ Len(resp.out.entries) = 5
  /\ resp.out.entries[4].name = <<"piece_", "0", "0", "0", "4", ".txt">>
  /\ ArchiveConsistent

====
